---- MODULE Spec2Model ----
(***************************************************************************)
(* Model of miflora-exporter.py: a sequential script that loads a registry *)
(* of BLE probes (MAC -> plant name), then either scans once for unknown   *)
(* probes, or starts a metrics server, reads every probe's firmware        *)
(* version once and polls the probes forever.                              *)
(*                                                                         *)
(* The BLE client and the metrics library are external.  A probe read      *)
(* either returns a value or raises an Exception; a Counter child starts   *)
(* at 0 and inc() adds 1; Gauge.set(v) stores float(v), which for the      *)
(* small numbers a probe returns is the same number.                       *)
(***************************************************************************)
EXTENDS Integers, Sequences, FiniteSets, TLC

(* ---------------------------- bounds ----------------------------------- *)

\* longest registry (number of items in the JSON object)
MaxProbes == 2
\* longest list returned by one discovery scan (duplicates allowed)
MaxScanLen == 3
\* how many reads in total may raise in one run (keeps the counters finite)
MaxFailures == 2

(* ---------------------------- domains ---------------------------------- *)

Macs == {"A", "B", "C"}
Plants == {"basil", "mint"}
Versions == {"3.2.1", "2.7.0"}
\* the samples a probe can deliver (what it measures changes between reads)
Samples == {1, 2}

\* The five reads of one probe, in the order of lines 79-83.
Params == <<"battery_level", "conductivity", "light", "moisture", "temperature">>

\* Value of a gauge child that was never set.
Unset == 0

\* What the probe client returns for parameter number kk when the probe
\* delivers sample s: distinct per parameter and per sample.
Reading(s, kk) == 10 * s + kk

RECURSIVE SeqsUpTo(_, _)
SeqsUpTo(S, n) ==
    IF n = 0 THEN {<< >>}
    ELSE LET shorter == SeqsUpTo(S, n - 1)
         IN  shorter \cup {Append(q, x) : q \in {r \in shorter : Len(r) = n - 1}, x \in S}

Range(q) == {q[j] : j \in 1..Len(q)}

\* A JSON object as json.load returns it: a dict, so its keys are unique, in
\* file order.  The code never looks inside an identifier or a name, so the
\* keys are taken in one fixed order and the first plant is "basil"; the other
\* plant names are free and may repeat.
MacOrder == <<"A", "B", "C">>
Registries ==
    {[j \in 1..Len(names) |-> <<MacOrder[j], names[j]>>] :
        names \in {q \in SeqsUpTo(Plants, MaxProbes) : Len(q) > 0 => q[1] = "basil"}}

\* What the FILE argument can hold.
Files ==
    {[kind |-> kd, items |-> << >>] : kd \in {"missing", "invalid", "array", "scalar"}}
    \cup {[kind |-> "object", items |-> r] : r \in Registries}

VARIABLES
    file,                     \* the contents of FILE (input)
    args_scan,                \* args.scan (input)
    pc,                       \* position of main()
    failure,                  \* the exception that ended the process, or "none"
    plants,                   \* the loaded registry: items of the dict, in order
    serverStarted,            \* start_http_server has returned
    pollers,                  \* list of [mac, plant] handles
    idx,                      \* position of the for loop over pollers (1-based)
    k,                        \* next read of the try block of lines 79-83
    error_count_metric,       \* Counter miflora_errors, keyed <<mac, plant>>
    battery_level_metric,     \* Gauge, keyed by plant
    conductivity_metric,      \* Gauge, keyed by plant
    light_metric,             \* Gauge, keyed by plant
    moisture_metric,          \* Gauge, keyed by plant
    temperature_metric,       \* Gauge, keyed by plant
    firmware_version_metric,  \* Gauge: the set of <<plant, version>> children set to 1
    nearby_macs,              \* set(miflora_scan(...))
    new_macs,                 \* nearby_macs - known_macs
    stdout,                   \* the lines printed so far
    \* ---- history (not program state) ----
    scanCount,                \* discovery scans performed
    probeRead,                \* some probe operation has been called
    fwLog,                    \* firmware reads so far: [probe, ok, version]
    cycle,                    \* this cycle's attempts: [probe, sample, calls, done, failedAt]
    prior,                    \* the five gauges of the current plant when its try block was entered
    errorsAtCycleStart,       \* error_count_metric when the current cycle began
    raisedReads               \* per mac: how many probe operations raised so far

gauges == <<battery_level_metric, conductivity_metric, light_metric,
            moisture_metric, temperature_metric>>
metrics == <<error_count_metric, gauges, firmware_version_metric>>
scanVars == <<nearby_macs, new_macs, stdout, scanCount>>
history == <<probeRead, fwLog, cycle, prior, errorsAtCycleStart, raisedReads>>
vars == <<file, args_scan, pc, failure, plants, serverStarted, pollers, idx, k,
          metrics, scanVars, history>>

NoGauge == [p \in Plants |-> Unset]

\* The gauges of one plant, as the tuple <<battery, conductivity, light, moisture, temperature>>.
GaugesOf(plant) == [j \in 1..Len(Params) |-> gauges[j][plant]]

RECURSIVE SumOver(_, _)
SumOver(f, S) ==
    IF S = {} THEN 0
    ELSE LET x == CHOOSE y \in S : TRUE IN f[x] + SumOver(f, S \ {x})

TotalRaised == SumOver(raisedReads, Macs)

\* A probe operation may raise only while the run's failure budget lasts.
MayRaise == TotalRaised < MaxFailures

Init ==
    /\ file \in Files
    /\ args_scan \in BOOLEAN
    /\ pc = "load"
    /\ failure = "none"
    /\ plants = << >>
    /\ serverStarted = FALSE
    /\ pollers = << >>
    /\ idx = 1
    /\ k = 1
    /\ error_count_metric = [key \in Macs \X Plants |-> 0]
    /\ battery_level_metric = NoGauge
    /\ conductivity_metric = NoGauge
    /\ light_metric = NoGauge
    /\ moisture_metric = NoGauge
    /\ temperature_metric = NoGauge
    /\ firmware_version_metric = {}
    /\ nearby_macs = {}
    /\ new_macs = {}
    /\ stdout = << >>
    /\ scanCount = 0
    /\ probeRead = FALSE
    /\ fwLog = << >>
    /\ cycle = << >>
    /\ prior = [j \in 1..Len(Params) |-> Unset]
    /\ errorsAtCycleStart = [key \in Macs \X Plants |-> 0]
    /\ raisedReads = [m \in Macs |-> 0]

(* ------------------------- load_plants --------------------------------- *)

\* load_plants without its assert: whatever json.load returns is returned.
LoadOutcomeNoAssert(f) ==
    CASE f.kind = "missing" -> "OSError"
      [] f.kind = "invalid" -> "JSONDecodeError"
      [] OTHER              -> "none"

\* load_plants: open, json.load, assert isinstance(plants, dict).
\* The exception it ends with, or "none".
LoadOutcome(f) ==
    CASE f.kind = "missing" -> "OSError"
      [] f.kind = "invalid" -> "JSONDecodeError"
      [] f.kind = "object"  -> "none"
      [] OTHER              -> "AssertionError"

\* main, lines 54-57: load the registry, then choose the mode.
LoadPlants ==
    /\ pc = "load"
    /\ IF LoadOutcome(file) = "none"
       THEN /\ plants' = file.items
            /\ pc' = IF args_scan THEN "scan" ELSE "server"
            /\ UNCHANGED failure
       ELSE /\ failure' = LoadOutcome(file)
            /\ pc' = "crashed"
            /\ UNCHANGED plants
    /\ UNCHANGED <<file, args_scan, serverStarted, pollers, idx, k, metrics,
                   scanVars, history>>

(* ---------------------- scan_for_new_devices ---------------------------- *)

\* known_macs = set(plants.keys())
KnownMacs(reg) == {reg[j][1] : j \in 1..Len(reg)}

\* The known identifiers are not taken out.
NewMacsAll(nearby, known) == nearby

\* new_macs = nearby_macs - known_macs
NewMacs(nearby, known) == nearby \ known

\* The two kinds of line scan_for_new_devices prints.
NoNewLine == [text |-> "no new devices detected", mac |-> ""]
NewLine(m) == [text |-> "new device", mac |-> m]

\* The identifiers the for loop of line 38 has already yielded.
Yielded == {stdout[j].mac : j \in {i \in 1..Len(stdout) : stdout[i].text = "new device"}}

\* No return after the scan: main goes on to start the server.
AfterScanFallsThrough == "server"

\* Line 57: after scan_for_new_devices, main returns and the process exits.
AfterScan == "exit"

\* Lines 55-56 and 31-37: the scan itself, and the message when nothing is new.
\* miflora_scan returns a list (or raises, which nothing catches).
ScanForNewDevices ==
    /\ pc = "scan"
    /\ scanCount' = scanCount + 1
    /\ \/ /\ failure' = "BluetoothBackendException"
          /\ pc' = "crashed"
          /\ UNCHANGED <<nearby_macs, new_macs, stdout>>
       \/ \E result \in SeqsUpTo(Macs, MaxScanLen) :
             LET nearby == Range(result)
                 new == NewMacs(nearby, KnownMacs(plants))
             IN  /\ nearby_macs' = nearby
                 /\ new_macs' = new
                 /\ IF Cardinality(new) = 0
                    THEN /\ stdout' = Append(stdout, NoNewLine)
                         /\ pc' = AfterScan
                    ELSE /\ stdout' = stdout
                         /\ pc' = "print"
                 /\ UNCHANGED failure
    /\ UNCHANGED <<file, args_scan, plants, serverStarted, pollers, idx, k,
                   metrics, history>>

\* Lines 38-39: one iteration of the loop over the set new_macs (in any order),
\* and the return of line 57 after the last one.
PrintNewDevice ==
    /\ pc = "print"
    /\ \E res \in new_macs \ Yielded :
          /\ stdout' = Append(stdout, NewLine(res))
          /\ pc' = IF new_macs \ Yielded = {res} THEN AfterScan ELSE "print"
    /\ UNCHANGED <<file, args_scan, failure, plants, serverStarted, pollers, idx, k,
                   metrics, nearby_macs, new_macs, scanCount, history>>

(* --------------------------- polling mode ------------------------------- *)

\* Line 59: start_http_server binds the port, or raises (port in use).
StartHttpServer ==
    /\ pc = "server"
    /\ \/ /\ serverStarted' = TRUE
          /\ pc' = "pollers"
          /\ UNCHANGED failure
       \/ /\ failure' = "OSError"
          /\ pc' = "crashed"
          /\ UNCHANGED serverStarted
    /\ UNCHANGED <<file, args_scan, plants, pollers, idx, k, metrics, scanVars, history>>

\* Lines 62-65: one handle per registry item, in plants.items() order.
PollersOf(reg) == [j \in 1..Len(reg) |-> [mac |-> reg[j][1], plant |-> reg[j][2]]]

MakePollers ==
    /\ pc = "pollers"
    /\ pollers' = PollersOf(plants)
    /\ pc' = "init"
    /\ idx' = 1
    /\ UNCHANGED <<file, args_scan, failure, plants, serverStarted, k, metrics,
                   scanVars, history>>

\* error_count_metric.labels(mac=mac, plant=plant)
ErrorKey(p) == <<p.mac, p.plant>>

\* The counter is set to 1 where it should be incremented.
IncSets(counter, key) == [counter EXCEPT ![key] = 1]

\* Counter.inc()
Inc(counter, key) == [counter EXCEPT ![key] = @ + 1]

\* The gauge child is never set.
SetFirmwareForgotten(fw, plant, version) == fw

\* firmware_version_metric.labels(plant=plant, version=version).set(1)
SetFirmware(fw, plant, version) == fw \cup {<<plant, version>>}

\* Lines 67-74: one iteration of the firmware loop, for a probe client whose
\* firmware versions are among `versions`.
InitProbeWith(versions) ==
    /\ pc = "init"
    /\ idx <= Len(pollers)
    /\ LET p == pollers[idx]
       IN  \/ \E version \in versions :
                /\ firmware_version_metric' =
                       SetFirmware(firmware_version_metric, p.plant, version)
                /\ fwLog' = Append(fwLog, [probe |-> idx, ok |-> TRUE, version |-> version])
                /\ UNCHANGED <<error_count_metric, raisedReads>>
           \/ /\ MayRaise
              /\ error_count_metric' = Inc(error_count_metric, ErrorKey(p))
              /\ raisedReads' = [raisedReads EXCEPT ![p.mac] = @ + 1]
              /\ fwLog' = Append(fwLog, [probe |-> idx, ok |-> FALSE, version |-> ""])
              /\ UNCHANGED firmware_version_metric
    /\ idx' = idx + 1
    /\ probeRead' = TRUE
    /\ UNCHANGED <<file, args_scan, pc, failure, plants, serverStarted, pollers, k,
                   gauges, scanVars, cycle, prior, errorsAtCycleStart>>

InitProbe == InitProbeWith(Versions)

\* Line 76: the firmware loop is over, the while loop is entered.
EnterLoop ==
    /\ pc = "init"
    /\ idx = Len(pollers) + 1
    /\ pc' = "poll"
    /\ idx' = 1
    /\ k' = 1
    /\ errorsAtCycleStart' = error_count_metric
    /\ UNCHANGED <<file, args_scan, failure, plants, serverStarted, pollers, metrics,
                   scanVars, probeRead, fwLog, cycle, prior, raisedReads>>

\* Line 81 asks the probe for 'conductivity' again: the light gauge gets the
\* conductivity value.
SetGaugeCopyPaste(g, j, kk, plant, v) ==
    IF j = kk THEN [g EXCEPT ![plant] = IF j = 3 THEN Reading(v \div 10, 2) ELSE v] ELSE g

\* Lines 79-83: statement number j sets its own gauge, and no other, when
\* read number kk has returned v.
SetGauge(g, j, kk, plant, v) == IF j = kk THEN [g EXCEPT ![plant] = v] ELSE g

\* A raise breaks out of the for loop: the rest of the cycle is skipped.
AfterReadAbortsCycle(i, kk, raised) ==
    IF raised THEN [pc |-> "poll", idx |-> Len(pollers) + 1, k |-> 1]
    ELSE IF kk = Len(Params) THEN [pc |-> "poll", idx |-> i + 1, k |-> 1]
    ELSE [pc |-> "poll", idx |-> i, k |-> kk + 1]

\* Every read has a try block of its own: a raise skips only that read.
AfterReadIsolated(i, kk, raised) ==
    IF kk = Len(Params)
    THEN [pc |-> "poll", idx |-> i + 1, k |-> 1]
    ELSE [pc |-> "poll", idx |-> i, k |-> kk + 1]

\* No try block: a raise ends the process.
AfterReadPropagates(i, kk, raised) ==
    IF raised THEN [pc |-> "crashed", idx |-> i, k |-> kk]
    ELSE IF kk = Len(Params) THEN [pc |-> "poll", idx |-> i + 1, k |-> 1]
    ELSE [pc |-> "poll", idx |-> i, k |-> kk + 1]

\* Where the loops stand after read kk of probe i: a raise leaves the try block
\* for the except clause and then the next poller; the fifth read ends the block.
AfterRead(i, kk, raised) ==
    IF raised \/ kk = Len(Params)
    THEN [pc |-> "poll", idx |-> i + 1, k |-> 1]
    ELSE [pc |-> "poll", idx |-> i, k |-> kk + 1]

\* Lines 77-86: one read of the try block with the gauge it sets, or the raise
\* with the except clause, for a probe client whose samples are among `samples`.
PollReadWith(samples) ==
    /\ pc = "poll"
    /\ idx <= Len(pollers)
    /\ LET p == pollers[idx]
       IN  \E s \in (IF k = 1 THEN samples ELSE {cycle[Len(cycle)].sample}) :
             LET entered ==
                     IF k = 1
                     THEN Append(cycle, [probe |-> idx, sample |-> s, calls |-> 0,
                                         done |-> 0, failedAt |-> 0])
                     ELSE cycle
                 n == Len(entered)
                 v == Reading(s, k)
             IN  /\ prior' = IF k = 1 THEN GaugesOf(p.plant) ELSE prior
                 /\ probeRead' = TRUE
                 /\ \/ /\ battery_level_metric' = SetGauge(battery_level_metric, 1, k, p.plant, v)
                       /\ conductivity_metric' = SetGauge(conductivity_metric, 2, k, p.plant, v)
                       /\ light_metric' = SetGauge(light_metric, 3, k, p.plant, v)
                       /\ moisture_metric' = SetGauge(moisture_metric, 4, k, p.plant, v)
                       /\ temperature_metric' = SetGauge(temperature_metric, 5, k, p.plant, v)
                       /\ cycle' = [entered EXCEPT ![n].calls = @ + 1, ![n].done = @ + 1]
                       /\ pc' = AfterRead(idx, k, FALSE).pc
                       /\ idx' = AfterRead(idx, k, FALSE).idx
                       /\ k' = AfterRead(idx, k, FALSE).k
                       /\ UNCHANGED <<error_count_metric, raisedReads>>
                    \/ /\ MayRaise
                       /\ error_count_metric' = Inc(error_count_metric, ErrorKey(p))
                       /\ raisedReads' = [raisedReads EXCEPT ![p.mac] = @ + 1]
                       /\ cycle' = [entered EXCEPT ![n].calls = @ + 1, ![n].failedAt = k]
                       /\ pc' = AfterRead(idx, k, TRUE).pc
                       /\ idx' = AfterRead(idx, k, TRUE).idx
                       /\ k' = AfterRead(idx, k, TRUE).k
                       /\ UNCHANGED gauges
    /\ UNCHANGED <<file, args_scan, failure, plants, serverStarted, pollers,
                   firmware_version_metric, scanVars, fwLog, errorsAtCycleStart>>

PollRead == PollReadWith(Samples)

\* The while loop encloses the firmware loop as well.
AfterSleepReinit == "init"

\* Lines 76-77: the while loop restarts at the for loop over the pollers, below
\* the firmware loop.
AfterSleep == "poll"

\* Line 87: every poller was attempted; time.sleep(10 * 60) returns and the
\* while loop starts the next cycle.
Sleep ==
    /\ pc = "poll"
    /\ idx = Len(pollers) + 1
    /\ pc' = AfterSleep
    /\ idx' = 1
    /\ cycle' = << >>
    /\ errorsAtCycleStart' = error_count_metric
    /\ UNCHANGED <<file, args_scan, failure, plants, serverStarted, pollers, k,
                   metrics, scanVars, probeRead, fwLog, prior, raisedReads>>

Next ==
    \/ LoadPlants
    \/ ScanForNewDevices
    \/ PrintNewDevice
    \/ StartHttpServer
    \/ MakePollers
    \/ InitProbe
    \/ EnterLoop
    \/ PollRead
    \/ Sleep

Spec == Init /\ [][Next]_vars

\* Every probe read returns or raises, the sleep ends, and the straight-line
\* code between them runs on.
FairSpec == Spec /\ WF_vars(Next)

\* The same program with a probe client that always delivers the same sample
\* and the same firmware version.  No statement of the program branches on a
\* value read from a probe, so the control flow (which read returns, which one
\* raises, where the loops stand) is that of Next.
SteadyNext ==
    \/ LoadPlants
    \/ ScanForNewDevices
    \/ PrintNewDevice
    \/ StartHttpServer
    \/ MakePollers
    \/ InitProbeWith({"3.2.1"})
    \/ EnterLoop
    \/ PollReadWith({1})
    \/ Sleep

SteadySpec == Init /\ [][SteadyNext]_vars /\ WF_vars(SteadyNext)

(* ------------------------------ claims ---------------------------------- *)

AllParams == 1..Len(Params)
PlantOf(i) == pollers[i].plant
KeyOf(i) == ErrorKey(pollers[i])

\* Every poller was attempted in this cycle; the next statement is the sleep.
CycleDone == pc = "poll" /\ idx = Len(pollers) + 1

\* C1: in the steady-state loop the pollers are attempted one by one in
\* registry order, each exactly once per cycle, whether or not an earlier read
\* raised: the attempts of the cycle are always probes 1, 2, ... up to the loop
\* position, all of them when the cycle is over, and once a probe operation has
\* been called the process is still in its loops, without a failure.
C1_FaultIsolation ==
    /\ pc = "poll" =>
          /\ \A j \in 1..Len(cycle) : cycle[j].probe = j
          /\ Len(cycle) = IF k = 1 THEN idx - 1 ELSE idx
          /\ idx \in 1..(Len(pollers) + 1)
          /\ CycleDone => Len(cycle) = Len(pollers)
    /\ probeRead => pc \in {"init", "poll"} /\ failure = "none"

\* A cycle is over in which the first probe raised and the second one was
\* still read to the end.
C1_Witness ==
    /\ CycleDone
    /\ Len(pollers) = 2
    /\ cycle[1].failedAt = 1
    /\ cycle[2].done = Len(Params)

\* C2: when the k-th read of a probe raises, exactly the reads 1..k were
\* called, in that order; right after the except clause the gauges 1..k-1 of
\* the plant hold the values just read and the gauges k..5 hold what they held
\* when the try block was entered; the probe's error counter is one more than
\* at the start of the cycle.
C2_PartialFailure ==
    pc = "poll" =>
       \A j \in 1..Len(cycle) :
          LET a == cycle[j]
          IN  /\ a.failedAt = 0 => a.calls = a.done
              /\ (a.failedAt = 0 /\ (j < Len(cycle) \/ k = 1)) => a.done = Len(Params)
              /\ (j = Len(cycle) /\ k > 1) => a.calls = k - 1
              /\ a.failedAt > 0 =>
                    /\ a.calls = a.failedAt
                    /\ a.done = a.failedAt - 1
                    /\ error_count_metric[KeyOf(a.probe)]
                          = errorsAtCycleStart[KeyOf(a.probe)] + 1
                    /\ j = Len(cycle) =>
                          \A g \in AllParams :
                             GaugesOf(PlantOf(a.probe))[g]
                                = IF g < a.failedAt THEN Reading(a.sample, g) ELSE prior[g]

\* The conductivity read has just raised after the battery read succeeded, and
\* every gauge of the plant had a value from an earlier cycle with another sample.
C2_Witness ==
    /\ pc = "poll"
    /\ Len(cycle) > 0
    /\ LET a == cycle[Len(cycle)]
       IN  /\ a.failedAt = 2
           /\ \A g \in AllParams : prior[g] # Unset /\ prior[g] # Reading(a.sample, g)
           /\ battery_level_metric[PlantOf(a.probe)] = Reading(a.sample, 1)
           /\ conductivity_metric[PlantOf(a.probe)] = prior[2]

\* A probe all of whose reads succeeded in the cycle that is over.
Succeeded(j) == j \in 1..Len(cycle) /\ cycle[j].done = Len(Params)

\* What C3 promises of probe j.
Reflects(j) ==
    /\ \A g \in AllParams : GaugesOf(PlantOf(j))[g] = Reading(cycle[j].sample, g)
    /\ error_count_metric[KeyOf(j)] = errorsAtCycleStart[KeyOf(j)]

\* C3 as stated: after a cycle, for every probe whose reads all succeeded, the
\* five gauges of its plant hold the values it returned and its error counter
\* is what it was, also when another probe carries the same plant name.
C3_Original ==
    CycleDone => \A j \in 1..Len(cycle) : Succeeded(j) => Reflects(j)

\* C3 amended: the same, for every probe after which no probe of the registry
\* carries the same plant name.
C3_LastOfItsName ==
    CycleDone =>
       \A j \in 1..Len(cycle) :
          (Succeeded(j) /\ \A i \in (j + 1)..Len(pollers) : PlantOf(i) # PlantOf(j))
             => Reflects(j)

\* The first probe succeeded, the second one (another plant) failed, and the
\* first plant's gauges all changed in this cycle.
C3_Witness ==
    /\ CycleDone
    /\ Len(pollers) = 2
    /\ PlantOf(1) # PlantOf(2)
    /\ Succeeded(1)
    /\ cycle[2].failedAt = 3
    /\ error_count_metric[KeyOf(1)] = 1
    /\ error_count_metric[KeyOf(2)] = 1

\* C4: the firmware loop reads every probe once, in registry order, and goes on
\* after a failure; a success leaves the gauge child <<plant, version>> set, a
\* failure counts one error for <<mac, plant>>; a probe whose firmware read
\* failed is attempted in every cycle like the others.
C4_InitNonFatal ==
    /\ \A j \in 1..Len(fwLog) :
          /\ fwLog[j].probe = j
          /\ fwLog[j].ok => <<PlantOf(j), fwLog[j].version>> \in firmware_version_metric
          /\ ~fwLog[j].ok => error_count_metric[KeyOf(j)] >= 1
          /\ (~fwLog[j].ok /\ pc = "init") => error_count_metric[KeyOf(j)] = 1
    /\ pc = "init" => Len(fwLog) = idx - 1 /\ failure = "none"
    /\ pc = "poll" => Len(fwLog) = Len(pollers)
    /\ CycleDone => \A j \in 1..Len(fwLog) : ~fwLog[j].ok => cycle[j].probe = j

\* The first probe's firmware read failed, the second one's succeeded, and a
\* cycle is over in which the first probe was read to the end.
C4_Witness ==
    /\ CycleDone
    /\ Len(pollers) = 2
    /\ ~fwLog[1].ok
    /\ fwLog[2].ok
    /\ Succeeded(1)
    /\ error_count_metric[KeyOf(1)] = 1

\* C5: a registry file whose top-level JSON value is not an object ends the
\* process in load_plants: the server is never started, no handle is made, no
\* probe is read and no scan is run.
C5_NonObjectAborts ==
    file.kind \in {"array", "scalar"} =>
       /\ ~serverStarted
       /\ pollers = << >>
       /\ plants = << >>
       /\ ~probeRead
       /\ scanCount = 0
       /\ pc \in {"load", "crashed"}
       /\ pc = "crashed" => failure = "AssertionError"

\* Polling mode was asked for and the file holds a JSON array.
C5_Witness == file.kind = "array" /\ ~args_scan /\ pc = "crashed"

MetricsUntouched ==
    /\ error_count_metric = [key \in Macs \X Plants |-> 0]
    /\ \A g \in AllParams : gauges[g] = NoGauge
    /\ firmware_version_metric = {}

\* C6: in scan mode at most one scan is run, the server is never started, no
\* probe is read and no metric changes, and the run that printed its result
\* has scanned exactly once and has exited; in polling mode no scan is ever
\* run and nothing is printed.
C6_ModesExclusive ==
    /\ args_scan =>
          /\ ~serverStarted
          /\ ~probeRead
          /\ pollers = << >>
          /\ MetricsUntouched
          /\ scanCount <= 1
          /\ pc \in {"load", "scan", "print", "exit", "crashed"}
          /\ pc \in {"print", "exit"} => scanCount = 1
          /\ stdout # << >> => scanCount = 1
    /\ ~args_scan =>
          /\ scanCount = 0
          /\ stdout = << >>
          /\ pc \notin {"scan", "print", "exit"}

\* Scan mode has printed two new devices and exited.
C6_Witness == args_scan /\ pc = "exit" /\ Len(stdout) = 2 /\ Len(plants) = 1

\* C7: the identifiers reported as new are discovered and not in the registry,
\* no identifier is reported twice, when the scan mode exits every discovered
\* identifier outside the registry was reported, and 'no new devices detected'
\* is printed exactly when there is none.
C7_ReportsDifference ==
    LET known == {plants[j][1] : j \in 1..Len(plants)}
        news == {j \in 1..Len(stdout) : stdout[j].text = "new device"}
        nones == {j \in 1..Len(stdout) : stdout[j].text = "no new devices detected"}
        unknown == {m \in nearby_macs : m \notin known}
    IN  /\ \A j \in news : stdout[j].mac \in nearby_macs /\ stdout[j].mac \notin known
        /\ \A i, j \in news : stdout[i].mac = stdout[j].mac => i = j
        /\ news \cup nones = 1..Len(stdout)
        /\ nones # {} => unknown = {} /\ Len(stdout) = 1
        /\ pc = "exit" =>
              /\ {stdout[j].mac : j \in news} = unknown
              /\ nones # {} <=> unknown = {}

\* Registry {A, B}, scan result {A, B, C}: exactly C was reported.
C7_Witness ==
    /\ pc = "exit"
    /\ {plants[j][1] : j \in 1..Len(plants)} = {"A", "B"}
    /\ nearby_macs = {"A", "B", "C"}
    /\ stdout = <<NewLine("C")>>

\* C8: the error counter of <<mac, plant>> is the number of operations of that
\* probe that have raised so far (0 for a key of no probe); within the firmware
\* loop and within a cycle it grows by at most 1; no step decreases a counter, and a step changes only the
\* counter of the probe the loop is at.
C8_ErrorCounter ==
    /\ [](/\ \A key \in Macs \X Plants :
               error_count_metric[key] =
                   IF \E j \in 1..Len(pollers) : KeyOf(j) = key
                   THEN raisedReads[key[1]] ELSE 0
          /\ \A key \in Macs \X Plants :
               error_count_metric[key] - errorsAtCycleStart[key] \in
                   (IF pc \in {"init", "poll"} THEN {0, 1} ELSE {0}))
    /\ [][\A key \in Macs \X Plants :
             /\ error_count_metric'[key] >= error_count_metric[key]
             /\ error_count_metric'[key] # error_count_metric[key] =>
                   /\ pc \in {"init", "poll"}
                   /\ idx <= Len(pollers)
                   /\ key = KeyOf(idx)
                   /\ error_count_metric'[key] = error_count_metric[key] + 1]_vars

\* The first probe failed at its firmware read and again in a cycle, where the
\* second probe was read to the end without an error.
C8_Witness ==
    /\ CycleDone
    /\ Len(pollers) = 2
    /\ error_count_metric[KeyOf(1)] = 2
    /\ error_count_metric[KeyOf(2)] = 0
    /\ Succeeded(2)

\* The loop is about to attempt probe i.
AtProbe(i) ==
    pc = "poll" /\ i <= Len(pollers) /\ idx = i /\ k = 1 /\ Len(cycle) = i - 1

\* C9: once in the polling loop the process never leaves it, and every probe of
\* the registry is attempted again and again, whatever has failed before.
C9_Liveness ==
    /\ [][pc = "poll" => pc' = "poll"]_vars
    /\ \A i \in 1..MaxProbes :
          /\ (pc = "poll" /\ i <= Len(pollers)) ~> AtProbe(i)
          /\ AtProbe(i) ~> (pc = "poll" /\ Len(cycle) >= i /\ cycle[i].calls > 0)

\* The first probe has used up the failure budget and is about to be
\* attempted once more.
C9_Witness ==
    /\ Len(pollers) = 2
    /\ AtProbe(1)
    /\ raisedReads[pollers[1].mac] = MaxFailures

\* C10: in the polling loop the firmware version of every probe has been read
\* exactly once, and the firmware gauge children are exactly those of the
\* firmware reads that succeeded: no cycle adds, removes or changes one, and a
\* probe whose firmware read failed has contributed none.
C10_FirmwareOnce ==
    pc = "poll" =>
       /\ Len(fwLog) = Len(pollers)
       /\ \A j \in 1..Len(fwLog) : fwLog[j].probe = j
       /\ firmware_version_metric =
             {<<PlantOf(j), fwLog[j].version>> : j \in {i \in 1..Len(fwLog) : fwLog[i].ok}}

\* The only probe's firmware read failed, a whole cycle of reads succeeded
\* afterwards, and there is no firmware gauge.
C10_Witness ==
    /\ CycleDone
    /\ Len(pollers) = 1
    /\ ~fwLog[1].ok
    /\ Succeeded(1)
    /\ error_count_metric[KeyOf(1)] = 1
    /\ firmware_version_metric = {}
====
